---- MODULE Spec2Model ----
(***************************************************************************)
(* The rust-cargo example of zr: a command-line calculator.                *)
(*   src/examples/rust-cargo/src/main.rs            Args, main             *)
(*   src/examples/rust-cargo/benches/calculator_bench.rs   add, multiply   *)
(* main.rs declares `mod calculator;` and calls calculator::add and        *)
(* calculator::multiply; the bench file holds the definitions of add and   *)
(* multiply (i32 `a + b`, `a * b`), and main.rs's test pins the same       *)
(* functions (add(2,3) = 5, multiply(2,3) = 6).                            *)
(*                                                                         *)
(* i32 values are the integers I32Min..I32Max.  TLC's integers are 32 bits  *)
(* wide too, so sums and products are computed on the two's-complement     *)
(* bytes of the operands, widened to 64 bits, where they are exact.        *)
(***************************************************************************)
EXTENDS Integers, Sequences, FiniteSets, TLC

\* ------------------------------------------------------------------ bounds

\* Small operands -SmallMax..SmallMax are tried beside the boundary values.
SmallMax == 3

\* ----------------------------------------------------------------- i32

I32Max == 2147483647
I32Min == (-I32Max) - 1

Byte == 256

\* The two's-complement bytes of an i32, least significant first, sign-extended
\* to eight bytes (`a as i64`).
Wide(a) ==
  LET fill == IF a < 0 THEN Byte - 1 ELSE 0
  IN  << a % Byte, (a \div Byte) % Byte, (a \div (Byte * Byte)) % Byte,
         (a \div (Byte * Byte * Byte)) % Byte, fill, fill, fill, fill >>

RECURSIVE CarryIn(_, _, _)
\* The carry into byte k of x + y.
CarryIn(x, y, k) ==
  IF k = 1 THEN 0 ELSE (x[k - 1] + y[k - 1] + CarryIn(x, y, k - 1)) \div Byte

\* x + y on eight bytes, the carry out of the top byte dropped.
AddW(x, y) == [k \in 1..8 |-> (x[k] + y[k] + CarryIn(x, y, k)) % Byte]

RECURSIVE Column(_, _, _, _)
\* The sum of x[i] * y[k + 1 - i] for i in 1..n: column k of the long product.
Column(x, y, k, n) ==
  IF n = 0 THEN 0 ELSE x[n] * y[k + 1 - n] + Column(x, y, k, n - 1)

RECURSIVE MulCarry(_, _, _)
\* The carry into byte k of x * y.
MulCarry(x, y, k) ==
  IF k = 1 THEN 0
  ELSE (Column(x, y, k - 1, k - 1) + MulCarry(x, y, k - 1)) \div Byte

\* x * y on eight bytes, truncated to eight bytes.
MulW(x, y) == [k \in 1..8 |-> (Column(x, y, k, k) + MulCarry(x, y, k)) % Byte]

\* Two's-complement negation on eight bytes.
NegW(x) == AddW([k \in 1..8 |-> (Byte - 1) - x[k]], Wide(1))

\* Whether the 64-bit value is representable in i32: its upper four bytes are
\* the sign extension of the lower four.
Fits(w) ==
  LET fill == IF w[4] >= Byte \div 2 THEN Byte - 1 ELSE 0
  IN  \A k \in 5..8 : w[k] = fill

\* The i32 held in the low four bytes (the wrapped value).
Wrap(w) ==
  LET low31 == w[1] + w[2] * Byte + w[3] * (Byte * Byte)
               + (w[4] % (Byte \div 2)) * (Byte * Byte * Byte)
  IN  IF w[4] >= Byte \div 2 THEN (low31 - I32Max) - 1 ELSE low31

\* ------------------------------------------------------------ outcomes

NoResult == [kind |-> "none", val |-> 0]
Value(v) == [kind |-> "value", val |-> v]
Panic    == [kind |-> "panic", val |-> 0]

\* ---------------------------------------------------------------- text

\* Text is a sequence of one-character strings.
DigitChars == << "0", "1", "2", "3", "4", "5", "6", "7", "8", "9" >>
IsDigit(c) == \E d \in 1..10 : DigitChars[d] = c
DigitVal(c) == (CHOOSE d \in 1..10 : DigitChars[d] = c) - 1

RECURSIVE FormatNat(_)
\* The decimal digits of n >= 0, no leading zero ("0" for 0).
FormatNat(n) ==
  IF n < 10 THEN << DigitChars[n + 1] >>
  ELSE Append(FormatNat(n \div 10), DigitChars[(n % 10) + 1])

RECURSIVE FormatNeg(_)
\* The decimal digits of -n for n < 0, computed without negating n (so that
\* I32Min formats too).
FormatNeg(n) ==
  LET d == (10 - (n % 10)) % 10
      rest == (n + d) \div 10
  IN  IF rest = 0 THEN << DigitChars[d + 1] >>
      ELSE Append(FormatNeg(rest), DigitChars[d + 1])

\* `{}` of an i32: its decimal representation, "-" first when negative.
Format(n) == IF n < 0 THEN << "-" >> \o FormatNeg(n) ELSE FormatNat(n)

ParseErr == [ok |-> FALSE, val |-> 0]
ParseOk(v) == [ok |-> TRUE, val |-> v]

RECURSIVE ParseDigits(_, _, _)
\* Accumulates the digits of t into acc, left to right; negative numbers
\* accumulate downwards.  Fails on a non-digit and on leaving the i32 range.
ParseDigits(t, acc, neg) ==
  IF t = << >> THEN ParseOk(acc)
  ELSE IF ~IsDigit(Head(t)) THEN ParseErr
  ELSE LET d == DigitVal(Head(t))
       IN  IF neg
           THEN IF acc < (I32Min + d + 9) \div 10 THEN ParseErr
                ELSE ParseDigits(Tail(t), acc * 10 - d, neg)
           ELSE IF acc > (I32Max - d) \div 10 THEN ParseErr
                ELSE ParseDigits(Tail(t), acc * 10 + d, neg)

\* The value parser of an i32 option: an optional sign, then one or more
\* decimal digits, the value within the i32 range.
ParseI32(t) ==
  IF t = << >> THEN ParseErr
  ELSE IF Head(t) \in {"+", "-"}
       THEN IF Len(t) = 1 THEN ParseErr
            ELSE ParseDigits(Tail(t), 0, Head(t) = "-")
       ELSE ParseDigits(t, 0, FALSE)

\* -------------------------------------------------------------- inputs

\* The operand values tried: small ones, and the ones at which sums and
\* products leave the i32 range (46340 * 46340 fits, 46341 * 46341 does not).
Samples ==
  ((-SmallMax)..SmallMax)
    \cup {I32Min, -46341, 46340, 46341, 65536, I32Max}

\* Operand texts no i32 parses from: empty, a lone sign, letters, a trailing
\* letter, and the two nearest values outside the range.
BadTexts ==
  { << >>, << "-" >>, << "a", "b" >>, << "1", "2", "a" >>,
    << "2", "1", "4", "7", "4", "8", "3", "6", "4", "8" >>,
    << "-", "2", "1", "4", "7", "4", "8", "3", "6", "4", "9" >> }

Absent == [present |-> FALSE, text |-> << >>]
Given(t) == [present |-> TRUE, text |-> t]

\* What the command line gives for -a/--a and for -b/--b.
OperandInputs ==
  {Absent} \cup {Given(Format(n)) : n \in Samples}
           \cup {Given(<< "+", "2" >>)} \cup {Given(t) : t \in BadTexts}

\* What the command line gives for -o/--operation.
OperationInputs ==
  {[present |-> FALSE, name |-> ""]}
    \cup {[present |-> TRUE, name |-> n] :
            n \in {"add", "multiply", "subtract", "Add", ""}}

\* Where -h/--help stands on the command line, if at all.
HelpInputs == {"none", "first", "last"}

\* --------------------------------------------------------------- state

VARIABLES
  argv,             \* the command line: [a, b, operation, help]
  overflow_checks,  \* whether the build checks integer overflow (dev: yes; release, bench: no)
  pc,               \* "start", "parsed", "computed", "printed", "exited";
                    \* "lib", "returned" for a direct call
  args,             \* the Args struct: [a, b, operation]
  result,           \* `result` of main, or the outcome of the last direct call
  calls,            \* the calls of add and multiply made: [fn, x, y]
  stdout,           \* the chunks written to standard output
  stderr,           \* the chunks written to standard error
  exit_code,        \* the exit status, NotExited while running
  steps             \* the steps taken so far, in order

vars == << argv, overflow_checks, pc, args, result, calls, stdout, stderr,
           exit_code, steps >>

NotExited == 0 - 1
ExitOk == 0
ExitUnknownOperation == 1
ExitUsage == 2
ExitPanic == 101

NoArgs == [a |-> 0, b |-> 0, operation |-> ""]

HelpText == << "Usage: myapp [OPTIONS] --a <A> --b <B>" >>
UsageError == << "error: invalid or missing argument" >>
PanicMessage == << "panicked: arithmetic overflow" >>
UnknownOperationMessage(name) == << "Unknown operation: ", name, "\n" >>

\* ------------------------------------------------------ add, multiply

\* `a + b` on i32: with overflow checks a sum outside the range panics,
\* without them it wraps.
\* Mutant of Add: the wrong operator, `a - b`.
AddSub(a, b) ==
  LET w == AddW(Wide(a), NegW(Wide(b)))
  IN  IF overflow_checks /\ ~Fits(w) THEN Panic ELSE Value(Wrap(w))

Add(a, b) ==
  LET w == AddW(Wide(a), Wide(b))
  IN  IF overflow_checks /\ ~Fits(w) THEN Panic ELSE Value(Wrap(w))

\* `a * b` on i32, likewise.
Multiply(a, b) ==
  LET w == MulW(Wide(a), Wide(b))
  IN  IF overflow_checks /\ ~Fits(w) THEN Panic ELSE Value(Wrap(w))

\* ------------------------------------------------------------- parsing

\* How Args::parse() ends for a command line.  The arguments are taken left
\* to right: a help flag ends parsing where it stands, an operand's text is
\* parsed where it stands, and the required operands are looked for only
\* after the last argument.
ParseKind(av) ==
  IF av.help = "first" THEN "help"
  ELSE IF \/ (av.a.present /\ ~ParseI32(av.a.text).ok)
          \/ (av.b.present /\ ~ParseI32(av.b.text).ok) THEN "error"
  ELSE IF av.help = "last" THEN "help"
  ELSE IF ~av.a.present \/ ~av.b.present THEN "error"
  ELSE "ok"

\* The Args a well-formed command line gives; the operation defaults to "add".
ParsedArgs(av) ==
  [a |-> ParseI32(av.a.text).val,
   b |-> ParseI32(av.b.text).val,
   operation |-> IF av.operation.present THEN av.operation.name ELSE "add"]

\* ---------------------------------------------------------------- main

Init ==
  /\ argv \in [a : OperandInputs, b : OperandInputs,
               operation : OperationInputs, help : HelpInputs]
  /\ overflow_checks \in BOOLEAN
  /\ pc = "start"
  /\ args = NoArgs
  /\ result = NoResult
  /\ calls = << >>
  /\ stdout = << >>
  /\ stderr = << >>
  /\ exit_code = NotExited
  /\ steps = << >>

\* Mutant of Parse: an operand that is missing or does not parse is taken as
\* 0 and the run goes on.
ParseLenient ==
  /\ pc = "start"
  /\ LET kind == IF ParseKind(argv) = "error" THEN "ok" ELSE ParseKind(argv) IN
       /\ steps' = steps \o (IF kind = "ok" THEN << "parse" >>
                                           ELSE << "parse", "exit" >>)
       /\ args' = IF kind = "ok" THEN ParsedArgs(argv) ELSE args
       /\ pc' = IF kind = "ok" THEN "parsed" ELSE "exited"
       /\ stdout' = IF kind = "help" THEN Append(stdout, HelpText) ELSE stdout
       /\ stderr' = stderr
       /\ exit_code' = IF kind = "ok" THEN exit_code ELSE ExitOk
  /\ UNCHANGED << argv, overflow_checks, result, calls >>

\* let args = Args::parse();  Help is printed to standard output with status
\* 0, a usage error to standard error with status 2; both end the process.
Parse ==
  /\ pc = "start"
  /\ LET kind == ParseKind(argv) IN
       /\ steps' = steps \o (IF kind = "ok" THEN << "parse" >>
                                           ELSE << "parse", "exit" >>)
       /\ args' = IF kind = "ok" THEN ParsedArgs(argv) ELSE args
       /\ pc' = IF kind = "ok" THEN "parsed" ELSE "exited"
       /\ stdout' = IF kind = "help" THEN Append(stdout, HelpText) ELSE stdout
       /\ stderr' = IF kind = "error" THEN Append(stderr, UsageError) ELSE stderr
       /\ exit_code' = CASE kind = "ok" -> exit_code
                         [] kind = "help" -> ExitOk
                         [] OTHER -> ExitUsage
  /\ UNCHANGED << argv, overflow_checks, result, calls >>

\* The outcome of a call made by the match of main: a value is bound to
\* `result`; a panic writes its message and ends the process with status 101.
Called(fn, out) ==
  /\ steps' = steps \o (IF out.kind = "value" THEN << "dispatch" >>
                                               ELSE << "dispatch", "exit" >>)
  /\ calls' = Append(calls, [fn |-> fn, x |-> args.a, y |-> args.b])
  /\ result' = IF out.kind = "value" THEN out ELSE result
  /\ pc' = IF out.kind = "value" THEN "computed" ELSE "exited"
  /\ stderr' = IF out.kind = "value" THEN stderr ELSE Append(stderr, PanicMessage)
  /\ exit_code' = IF out.kind = "value" THEN exit_code ELSE ExitPanic

\* Mutant of Selected: the two arms exchanged.
SelectedSwapped(name) ==
  CASE name = "add" -> "multiply"
    [] name = "multiply" -> "add"
    [] OTHER -> "unknown"

\* Mutant of Selected: the name compared without regard to case.
SelectedLoose(name) ==
  CASE name \in {"add", "Add"} -> "add"
    [] name = "multiply" -> "multiply"
    [] OTHER -> "unknown"

\* The arm the match takes for an operation name: the name is compared
\* exactly, and every other name takes the `_` arm.
Selected(name) ==
  CASE name = "add" -> "add"
    [] name = "multiply" -> "multiply"
    [] OTHER -> "unknown"

\* Mutant of Dispatch: the match takes the operation name out of args
\* (leaving it empty) before the arms run.
DispatchTakesOperation ==
  /\ pc = "parsed"
  /\ args' = [args EXCEPT !.operation = ""]
  /\ CASE Selected(args.operation) = "add" ->
            Called("add", Add(args.a, args.b))
       [] Selected(args.operation) = "multiply" ->
            Called("multiply", Multiply(args.a, args.b))
       [] OTHER ->
            /\ steps' = steps \o << "dispatch", "exit" >>
            /\ stderr' = Append(stderr, UnknownOperationMessage(args'.operation))
            /\ exit_code' = ExitUnknownOperation
            /\ pc' = "exited"
            /\ UNCHANGED << calls, result >>
  /\ UNCHANGED << argv, overflow_checks, stdout >>

\* let result = match args.operation.as_str() { ... };
Dispatch ==
  /\ pc = "parsed"
  /\ CASE Selected(args.operation) = "add" ->
            Called("add", Add(args.a, args.b))
       [] Selected(args.operation) = "multiply" ->
            Called("multiply", Multiply(args.a, args.b))
       [] OTHER ->
            /\ steps' = steps \o << "dispatch", "exit" >>
            /\ stderr' =Append(stderr, UnknownOperationMessage(args.operation))
            /\ exit_code' = ExitUnknownOperation
            /\ pc' = "exited"
            /\ UNCHANGED << calls, result >>
  /\ UNCHANGED << argv, overflow_checks, args, stdout >>

\* Mutant of Output: the line is written again before the run goes on.
OutputTwice ==
  /\ pc = "computed"
  /\ steps' = Append(steps, "output")
  /\ stdout' = Append(stdout, Format(result.val) \o << "\n" >>)
  /\ pc' = IF stdout = << >> THEN "computed" ELSE "printed"
  /\ UNCHANGED << argv, overflow_checks, args, result, calls, stderr, exit_code >>

\* println!("{}", result);
Output ==
  /\ pc = "computed"
  /\ steps' = Append(steps, "output")
  /\ stdout' = Append(stdout, Format(result.val) \o << "\n" >>)
  /\ pc' = "printed"
  /\ UNCHANGED << argv, overflow_checks, args, result, calls, stderr, exit_code >>

\* main returns: the process ends with status 0.
Return ==
  /\ pc = "printed"
  /\ steps' = Append(steps, "exit")
  /\ exit_code' = ExitOk
  /\ pc' = "exited"
  /\ UNCHANGED << argv, overflow_checks, args, result, calls, stdout, stderr >>

Next == Parse \/ Dispatch \/ Output \/ Return

Spec == Init /\ [][Next]_vars

\* The runs of command lines that hold no help flag.
InitNoHelp == Init /\ argv.help = "none"
NoHelpSpec == InitNoHelp /\ [][Next]_vars

\* The process is single-threaded and nothing in it waits: a step that can be
\* taken is taken.
FairSpec == Spec /\ WF_vars(Next)

\* ------------------------------------------------------- direct calls

\* add and multiply called directly on sampled operands, as the benchmark
\* (release-like build, no overflow checks) and the test of main.rs (dev
\* build, overflow checks) call them: one call per run.  `calls` holds the
\* call and `result` its outcome; a panic ends the process.
LibInit ==
  /\ argv = [a |-> Absent, b |-> Absent,
             operation |-> [present |-> FALSE, name |-> ""], help |-> "none"]
  /\ overflow_checks \in BOOLEAN
  /\ pc = "lib"
  /\ args = NoArgs
  /\ result = NoResult
  /\ calls = << >>
  /\ stdout = << >>
  /\ stderr = << >>
  /\ exit_code = NotExited
  /\ steps = << >>

Returned(fn, x, y, out) ==
  /\ calls' = << [fn |-> fn, x |-> x, y |-> y] >>
  /\ result' = out
  /\ pc' = IF out.kind = "value" THEN "returned" ELSE "exited"
  /\ stderr' = IF out.kind = "value" THEN stderr ELSE Append(stderr, PanicMessage)
  /\ exit_code' = IF out.kind = "value" THEN exit_code ELSE ExitPanic
  /\ UNCHANGED << argv, overflow_checks, args, stdout, steps >>

CallAdd ==
  /\ pc = "lib"
  /\ \E x \in Samples, y \in Samples : Returned("add", x, y, Add(x, y))

CallMultiply ==
  /\ pc = "lib"
  /\ \E x \in Samples, y \in Samples : Returned("multiply", x, y, Multiply(x, y))

LibNext == CallAdd \/ CallMultiply

LibSpec == LibInit /\ [][LibNext]_vars

\* =================================================================
\* Properties
\* =================================================================

\* a + b reduced modulo 2^32 into I32Min..I32Max, by cases on the sign of the
\* overflow (no intermediate value leaves the 32-bit range).
WrapSum(a, b) ==
  IF a >= 0 /\ b > I32Max - a
    THEN ((a - I32Max) - 1) + ((b - I32Max) - 1)
  ELSE IF a < 0 /\ b < I32Min - a
    THEN ((a + I32Max) + 1) + ((b + I32Max) + 1)
  ELSE a + b

RECURSIVE WrapProduct(_, _)
\* a * b reduced modulo 2^32 into I32Min..I32Max, by doubling along the binary
\* digits of b: a * b = 2 * (a * (b div 2)) + a * (b mod 2), and a * -1 = -a.
WrapProduct(a, b) ==
  IF b = 0 THEN 0
  ELSE IF b = -1 THEN WrapSum((-1) - a, 1)
  ELSE CHOOSE r \in {WrapSum(WrapSum(h, h), IF b % 2 = 1 THEN a ELSE 0) :
                       h \in {WrapProduct(a, b \div 2)}} : TRUE

\* The operands and the operation the command line spells, read off argv
\* itself (not off args).
GivenA == ParseI32(argv.a.text).val
GivenB == ParseI32(argv.b.text).val
OperandsWellFormed ==
  /\ argv.a.present /\ ParseI32(argv.a.text).ok
  /\ argv.b.present /\ ParseI32(argv.b.text).ok
OperandBad ==
  \/ ~argv.a.present \/ ~ParseI32(argv.a.text).ok
  \/ ~argv.b.present \/ ~ParseI32(argv.b.text).ok
WantsAdd == ~argv.operation.present \/ argv.operation.name = "add"
WantsMultiply == argv.operation.present /\ argv.operation.name = "multiply"
WantsUnknown ==
  argv.operation.present /\ argv.operation.name \notin {"add", "multiply"}
ParsedRun == OperandsWellFormed /\ argv.help = "none"
Line(v) == Format(v) \o << "\n" >>
IsCall(fn) == Len(calls) = 1 /\ calls[1].fn = fn

\* C1 (as claimed): for all i32 a and b, add(a, b) returns the wraparound sum
\* of a and b (a + b modulo 2^32 in I32Min..I32Max), also when a + b lies
\* outside the i32 range.
C1_AddReturnsWrappedSum ==
  (pc \in {"returned", "exited"} /\ IsCall("add"))
    => result = Value(WrapSum(calls[1].x, calls[1].y))

\* C2 (as claimed): for all i32 a and b, multiply(a, b) returns the wraparound
\* product of a and b (a * b modulo 2^32 in I32Min..I32Max).
C2_MultiplyReturnsWrappedProduct ==
  (pc \in {"returned", "exited"} /\ IsCall("multiply"))
    => result = Value(WrapProduct(calls[1].x, calls[1].y))

\* C3 (as claimed): add and multiply are total: a run with well-formed
\* operands and the operation add or multiply never ends in an error, whether
\* or not the sum or product overflows; it ends with status 0.
C3_NoErrorFromOverflow ==
  (pc = "exited" /\ ParsedRun /\ (WantsAdd \/ WantsMultiply))
    => exit_code = ExitOk

\* C4: add and multiply are commutative: a call with the operands exchanged
\* has the same outcome (the same value, also a wrapped one; in a build with
\* overflow checks both orders panic).
C4_Commutative ==
  /\ (pc \in {"returned", "exited"} /\ IsCall("add"))
       => result = Add(calls[1].y, calls[1].x)
  /\ (pc \in {"returned", "exited"} /\ IsCall("multiply"))
       => result = Multiply(calls[1].y, calls[1].x)

\* C4's case: add(I32Max, 1) has wrapped to I32Min.
C4_Witness ==
  /\ pc = "returned" /\ IsCall("add")
  /\ calls[1].x = I32Max /\ calls[1].y = 1
  /\ result = Value(I32Min)

\* C5: dispatch is by the exact name, addition the default: with well-formed
\* operands a and b, a run without an operation flag or with "add" calls
\* add(a, b) and prints what it returns, a run with "multiply" calls
\* multiply(a, b) and prints what it returns; a = 2, b = 3 prints 5, and 6
\* with multiply.
C5_DispatchByName ==
  (pc = "exited" /\ ParsedRun) =>
    /\ WantsAdd =>
         /\ calls = << [fn |-> "add", x |-> GivenA, y |-> GivenB] >>
         /\ Add(GivenA, GivenB).kind = "value"
              => stdout = << Line(Add(GivenA, GivenB).val) >>
    /\ WantsMultiply =>
         /\ calls = << [fn |-> "multiply", x |-> GivenA, y |-> GivenB] >>
         /\ Multiply(GivenA, GivenB).kind = "value"
              => stdout = << Line(Multiply(GivenA, GivenB).val) >>
    /\ (argv.a.text = << "2" >> /\ argv.b.text = << "3" >>) =>
         /\ WantsAdd => stdout = << << "5", "\n" >> >>
         /\ WantsMultiply => stdout = << << "6", "\n" >> >>

\* C5's case: a = 2, b = 3 and no operation flag has printed 5.
C5_Witness ==
  /\ pc = "exited" /\ argv.help = "none" /\ ~argv.operation.present
  /\ argv.a.text = << "2" >> /\ argv.b.text = << "3" >>
  /\ stdout = << << "5", "\n" >> >>

\* C6: with well-formed operands and an operation name other than exactly
\* "add" or "multiply", the run writes the diagnostic naming the operation to
\* standard error and nothing to standard output, calls neither add nor
\* multiply, and ends with status 1.
C6_UnknownOperation ==
  (pc = "exited" /\ ParsedRun /\ WantsUnknown) =>
    /\ stderr = << UnknownOperationMessage(argv.operation.name) >>
    /\ stdout = << >>
    /\ calls = << >>
    /\ exit_code = 1

\* C6's case: a = 1, b = 1, operation "subtract" has ended with status 1.
C6_Witness ==
  /\ pc = "exited" /\ argv.help = "none"
  /\ argv.a.text = << "1" >> /\ argv.b.text = << "1" >>
  /\ argv.operation = [present |-> TRUE, name |-> "subtract"]
  /\ exit_code = 1 /\ stdout = << >>
  /\ stderr = << << "Unknown operation: ", "subtract", "\n" >> >>

\* C7 (as claimed): if an operand is missing or is not an i32, the run ends
\* with a non-zero status before the dispatch: nothing is called and nothing
\* is written to standard output, whatever the operation name.
C7_BadOperandFails ==
  (pc = "exited" /\ OperandBad) =>
    /\ exit_code # 0
    /\ stdout = << >>
    /\ calls = << >>
    /\ steps = << "parse", "exit" >>

\* C7 (amended): if an operand is missing or is not an i32 and the command
\* line holds no help flag, the run ends with a non-zero status before the
\* dispatch: nothing is called and nothing is written to standard output,
\* whatever the operation name.
C7_BadOperandFailsWithoutHelp ==
  (pc # "start" /\ OperandBad /\ argv.help = "none") =>
    /\ pc = "exited"
    /\ exit_code # 0 /\ exit_code # NotExited
    /\ stdout = << >>
    /\ calls = << >>
    /\ steps = << "parse", "exit" >>

\* C7's case: b is missing, the operation is "multiply", and the run has ended.
C7_Witness ==
  /\ pc = "exited" /\ argv.help = "none"
  /\ argv.a.text = << "2" >> /\ ~argv.b.present
  /\ argv.operation = [present |-> TRUE, name |-> "multiply"]
  /\ exit_code = ExitUsage /\ stdout = << >>

\* C8 (as claimed): a run ends with status 0 exactly when parsing succeeded
\* and the operation was "add" or "multiply", and standard output then holds
\* exactly the decimal result and one newline; a run that ends with a
\* non-zero status has written nothing to standard output.
C8_StdoutOnSuccessOnly ==
  pc = "exited" =>
    /\ exit_code = 0 <=> (OperandsWellFormed /\ (WantsAdd \/ WantsMultiply))
    /\ exit_code = 0 => stdout = << Line(result.val) >>
    /\ exit_code # 0 => stdout = << >>

\* The orders in which a whole run takes its steps.
Runs ==
  { << "parse", "exit" >>,
    << "parse", "dispatch", "exit" >>,
    << "parse", "dispatch", "output", "exit" >> }
IsPrefix(s, r) == Len(s) <= Len(r) /\ SubSeq(r, 1, Len(s)) = s
Count(s, v) == Cardinality({i \in 1..Len(s) : s[i] = v})

\* C9: a run is one linear pass that ends: its steps are taken in the order
\* parse, dispatch, output, exit, each at most once, with at most one call of
\* add or multiply and at most one write to standard output; nothing happens
\* after the exit, and every run reaches the exit.
C9_LinearPass ==
  /\ [](/\ \E r \in Runs : IsPrefix(steps, r)
        /\ Count(steps, "parse") <= 1
        /\ Len(calls) <= 1
        /\ Len(stdout) <= 1
        /\ (pc = "exited") <=> (steps # << >> /\ steps[Len(steps)] = "exit"))
  /\ [][pc = "exited" => UNCHANGED vars]_vars
  /\ <>(pc = "exited")

\* C9's case: a run that has gone through all four steps.
C9_Witness ==
  /\ pc = "exited"
  /\ steps = << "parse", "dispatch", "output", "exit" >>
  /\ Len(calls) = 1 /\ Len(stdout) = 1

\* C10: the configuration is immutable once constructed: after the parse no
\* step changes args, the operands passed to add or multiply are the parsed
\* ones, and the diagnostic names the parsed operation.
C10_ArgsImmutable ==
  /\ [][pc # "start" => args' = args]_vars
  /\ [](pc \notin {"start", "exited"} \/ (pc = "exited" /\ ParsedRun) =>
          /\ args = [a |-> GivenA, b |-> GivenB,
                     operation |-> IF argv.operation.present
                                     THEN argv.operation.name ELSE "add"]
          /\ \A i \in 1..Len(calls) :
               calls[i].x = args.a /\ calls[i].y = args.b
          /\ exit_code = ExitUnknownOperation
               => stderr = << UnknownOperationMessage(args.operation) >>)

\* C10's case: the diagnostic of an unknown operation has been written and
\* args still holds what the parse gave.
C10_Witness ==
  /\ pc = "exited" /\ exit_code = ExitUnknownOperation
  /\ args = [a |-> -1, b |-> I32Max, operation |-> "Add"]
  /\ stderr = << UnknownOperationMessage("Add") >>

====
